---- MODULE Spec2Model ----
(***************************************************************************)
(* Model of relayer/poly/poly.go: the hub-chain ("poly") Submitter and     *)
(* Listener of the relayer.                                                *)
(*                                                                         *)
(* The module holds one state machine per component, each with its own    *)
(* initial predicate and next-state relation over the shared variables:    *)
(*   SpecPipeline  Submitter.Start / run / Stop  (submission workers)      *)
(*   SpecSync      Submitter.startSync           (header sync engine)      *)
(*   SpecValidate  Listener.Validate / validate / scanTx                   *)
(*   SpecCompose   Submitter.ComposeTx           (proof composer)          *)
(* A component's variables keep their initial value under the other        *)
(* components' specifications.                                             *)
(***************************************************************************)
EXTENDS Integers, Sequences, FiniteSets, TLC

\* ------------------------------------------------------------------ bounds
\* Largest config.Procs tried.
MaxProcs == 2
\* Largest number of transactions waiting on the bus.
MaxQueue == 2
\* Largest s.sync.Batch tried (1 is single mode).
MaxBatch == 3
\* Headers the upstream listener sends before it stops.
MaxHeaders == 4
\* Retries of one batch inside SubmitHeadersWithLoop that are followed.
MaxTries == 1
\* Stand-in for 2^64, the modulus of uint64 arithmetic.
Uint64Mod == 1024
\* Nodes of the hub-chain SDK's node set.
NumNodes == 2
\* Stand-in for 2^32, the modulus of uint32 arithmetic.
Uint32Mod == 5
\* Largest number of peers in a header's consensus payload.
MaxPeers == 3

VARIABLES
    \* --- submission pipeline (Submitter.Start, run, Stop)
    procs,      \* s.config.Procs
    started,    \* Start has run: s.Context and s.wg are set
    ctxDone,    \* the context's Done channel is closed
    wg,         \* counter of the sync.WaitGroup
    wpc,        \* per worker goroutine: where it is in run
    stopPc,     \* where the caller of Stop is
    bus,        \* the transactions waiting on the TxBus
    \* --- header sync engine (Submitter.StartSync, startSync)
    batch,      \* s.sync.Batch
    ch,         \* the headers waiting in the channel ch
    chClosed,   \* the upstream listener has closed ch
    fed,        \* headers sent on ch so far; a header's id is its arrival rank
    syncPc,     \* where startSync is
    cur,        \* single mode: the loop variable header
    headers,    \* batch mode: the local slice headers
    height,     \* batch mode: the local variable height
    tries,      \* iterations of SubmitHeadersWithLoop's loop for this batch
    reset,      \* the values sent on the reset channel, in order
    hubStore,   \* the hub chain's stored side-chain header hash per height
    existErr,   \* err of the last CheckHeaderExistence
    subErr,     \* err of the last SubmitHeaders call
    handed,     \* history: the batches handed to submission, as header ids
    timeoutFired, \* history: a time.After case was taken
    failed,     \* history: a SubmitHeaders call returned an error
    expired,    \* batch mode: the duration of the select's time.After is over
    quiet,      \* history: a full duration went by since the last receive
    synced,     \* history: a SyncBlockHeader call of the running
                \* SubmitHeadersWithLoop call was accepted
    \* --- Listener.Validate
    vtx,        \* the Tx handed to Validate (the claimed record)
    vpc,        \* where Validate is
    vi,         \* index in l.sdk.AllNodes() of the loop of line 679
    verr,       \* the named result err of Validate
    vresult,    \* what Validate returned
    vq,         \* history: per validate call, what it saw and its error
    \* --- Submitter.ComposeTx
    ctx,        \* the Tx being composed
    cpc,        \* where ComposeTx is
    cres,       \* what the last ComposeTx returned
    cfetch,     \* history: the header and Merkle proof requests of this call
    \* --- Submitter.submit
    stx,        \* the Tx handed to submit
    sres,       \* the error submit returned
    simp,       \* history: the ImportOuterTransfer calls of the last submit
    \* --- Submitter.CheckEpoch
    ekeepers,   \* tx.DstPolyKeepers
    ehdr,       \* the header handed to CheckEpoch
    eres,       \* what CheckEpoch returned
    \* --- Listener.Scan
    nheight,    \* the height handed to Scan
    nevents,    \* the node's answer to GetSmartContractEventByBlock
    nres        \* what Scan returned

pvars == <<procs, started, ctxDone, wg, wpc, stopPc, bus>>

svars == <<batch, ch, chClosed, fed, syncPc, cur, headers, height, tries,
           reset, hubStore, existErr, subErr, handed, timeoutFired, failed,
           expired, quiet, synced>>

vvars == <<vtx, vpc, vi, verr, vresult, vq>>

cvars == <<ctx, cpc, cres, cfetch>>

xvars == <<stx, sres, simp>>

evars == <<ekeepers, ehdr, eres>>

nvars == <<nheight, nevents, nres>>

\* The components added after the first four.
ovars == <<xvars, evars, nvars>>

vars == <<pvars, svars, vvars, cvars, ovars>>

\* ------------------------------------------------------------ pipeline
Workers == 1..MaxProcs

\* Positions of a worker goroutine.  "pop" is the bus.Pop call of line 357.
WorkerPcs == {"none", "launched", "select", "pop", "exited"}

TxIds == {1, 2}

InitPipeline ==
    /\ procs \in 0..MaxProcs
    /\ started = FALSE
    /\ ctxDone = FALSE
    /\ wg = 0
    /\ wpc = [w \in Workers |-> "none"]
    /\ stopPc = "idle"
    /\ bus = <<>>

IdlePipeline ==
    /\ procs = 0
    /\ started = FALSE
    /\ ctxDone = FALSE
    /\ wg = 0
    /\ wpc = [w \in Workers |-> "none"]
    /\ stopPc = "idle"
    /\ bus = <<>>

\* Start (375-383): records the context and the wait group and launches
\* config.Procs goroutines; it does not touch the wait group itself.
Start ==
    /\ ~started
    /\ started' = TRUE
    /\ wpc' = [w \in Workers |-> IF w <= procs THEN "launched" ELSE "none"]
    /\ UNCHANGED <<procs, ctxDone, wg, stopPc, bus>>
    /\ UNCHANGED <<svars, vvars, cvars, ovars>>

\* run, lines 349-350: the goroutine, once scheduled, does s.wg.Add(1).
RunEnter(w) ==
    /\ wpc[w] = "launched"
    /\ wg' = wg + 1
    /\ wpc' = [wpc EXCEPT ![w] = "select"]
    /\ UNCHANGED <<procs, started, ctxDone, stopPc, bus>>
    /\ UNCHANGED <<svars, vvars, cvars, ovars>>

\* run, lines 351-356: a select whose only case is <-s.Done() and which has
\* no default blocks until the context is cancelled; the case then returns,
\* and the deferred s.wg.Done() runs.  No path leaves the select towards the
\* bus.Pop of line 357, so lines 357-371 have no step here.
RunSelect(w) ==
    /\ wpc[w] = "select"
    /\ ctxDone
    /\ wg' = wg - 1
    /\ wpc' = [wpc EXCEPT ![w] = "exited"]
    /\ UNCHANGED <<procs, started, ctxDone, stopPc, bus>>
    /\ UNCHANGED <<svars, vvars, cvars, ovars>>

\* The owner of the context cancels it.
Cancel ==
    /\ ~ctxDone
    /\ ctxDone' = TRUE
    /\ UNCHANGED <<procs, started, wg, wpc, stopPc, bus>>
    /\ UNCHANGED <<svars, vvars, cvars, ovars>>

\* Stop (159-162): s.wg.Wait() returns once the counter is zero.
StopCall ==
    /\ started
    /\ stopPc = "idle"
    /\ stopPc' = "waiting"
    /\ UNCHANGED <<procs, started, ctxDone, wg, wpc, bus>>
    /\ UNCHANGED <<svars, vvars, cvars, ovars>>

StopReturn ==
    /\ stopPc = "waiting"
    /\ wg = 0
    /\ stopPc' = "returned"
    /\ UNCHANGED <<procs, started, ctxDone, wg, wpc, bus>>
    /\ UNCHANGED <<svars, vvars, cvars, ovars>>

\* Another component pushes a transaction on the bus.
BusPush(t) ==
    /\ Len(bus) < MaxQueue
    /\ bus' = Append(bus, [id |-> t, attempts |-> 0])
    /\ UNCHANGED <<procs, started, ctxDone, wg, wpc, stopPc>>
    /\ UNCHANGED <<svars, vvars, cvars, ovars>>

NextPipeline ==
    \/ Start
    \/ \E w \in Workers : RunEnter(w)
    \/ \E w \in Workers : RunSelect(w)
    \/ Cancel
    \/ StopCall
    \/ StopReturn
    \/ \E t \in TxIds : BusPush(t)

\* --------------------------------------------------------- header sync
\* The delta of "reset <- header.Height - 100".
RollbackDelta == 100

\* Heights of the side-chain headers tried: one below the delta, one above.
Heights == {7, 150}

\* Header hashes tried; 0 in hubStore stands for "nothing stored".
Hashes == {1, 2}

BatchSizes == 1..MaxBatch

\* uint64 subtraction.
Sub64(a, b) == (a - b + Uint64Mod) % Uint64Mod

\* An outcome of one SubmitHeaders call (100-113): whether the hub chain
\* accepted the SyncBlockHeader transaction, and the error returned:
\*   accepted = FALSE         SyncBlockHeader failed (line 104)
\*   accepted, err # "nil"    Confirm failed (line 108)
\*   accepted, err = "nil"    success
\* err is "fork" when its message holds one of the two substrings of line 90
\* and "other" when it holds neither.
Outcomes ==
    {o \in [accepted : BOOLEAN, err : {"nil", "fork", "other"}] :
        ~o.accepted => o.err # "nil"}

\* SubmitHeaders (100-113): the error the call returns.
SubmitHeaders(o) == o.err

\* The hub chain after a SyncBlockHeader call with batch b: an accepted call
\* stores the hash of every header of b at its height.
HubAfter(store, b, o) ==
    IF o.accepted
    THEN [h \in Heights |->
            IF \E i \in DOMAIN b : b[i].height = h
            THEN b[CHOOSE i \in DOMAIN b :
                     /\ b[i].height = h
                     /\ \A j \in DOMAIN b : b[j].height = h => j <= i].hash
            ELSE store[h]]
    ELSE store

\* Line 90: the error ends SubmitHeadersWithLoop instead of being retried.
IsForkError_Any(e) == e # "nil"

IsForkError_Never(e) == FALSE

IsForkError(e) == e = "fork"

CheckHeaderExistence_NeverOk(header, q, store) ==
    [ok |-> FALSE, err |-> IF q = "err" THEN "query" ELSE "nil"]

\* CheckHeaderExistence (413-420) for a header, q being the outcome of
\* GetSideChainHeader ("err", or "ok" with the stored hash).
CheckHeaderExistence(header, q, store) ==
    IF q = "err"
    THEN [ok |-> FALSE, err |-> "query"]
    ELSE [ok |-> store[header.height] = header.hash, err |-> "nil"]

RollbackHeight_NoCount(h, k) == Sub64(h, RollbackDelta)

\* Lines 434 and 462: the value sent on reset for a failed submission at
\* height h with k buffered headers (k = 0 in single mode).
RollbackHeight(h, k) == Sub64(Sub64(h, RollbackDelta), k)

Ids(b) == [i \in DOMAIN b |-> b[i].id]

NoHeader == [id |-> 0, height |-> 0, hash |-> 0]

InitSync ==
    /\ batch \in BatchSizes
    /\ ch = <<>>
    /\ chClosed = FALSE
    /\ fed = 0
    /\ syncPc = "recv"
    /\ cur = NoHeader
    /\ headers = <<>>
    /\ height = 0
    /\ tries = 0
    /\ reset = <<>>
    /\ hubStore = [h \in Heights |-> 0]
    /\ existErr = "nil"
    /\ subErr = "nil"
    /\ handed = <<>>
    /\ timeoutFired = FALSE
    /\ failed = FALSE
    /\ expired = FALSE
    /\ quiet = FALSE
    /\ synced = FALSE

IdleSync ==
    /\ batch = 1
    /\ ch = <<>>
    /\ chClosed = FALSE
    /\ fed = 0
    /\ syncPc = "recv"
    /\ cur = NoHeader
    /\ headers = <<>>
    /\ height = 0
    /\ tries = 0
    /\ reset = <<>>
    /\ hubStore = [h \in Heights |-> 0]
    /\ existErr = "nil"
    /\ subErr = "nil"
    /\ handed = <<>>
    /\ timeoutFired = FALSE
    /\ failed = FALSE
    /\ expired = FALSE
    /\ quiet = FALSE
    /\ synced = FALSE

\* The upstream listener sends a header on ch (capacity s.sync.Buffer, which
\* StartSync sets to 2 * Batch, line 394).
Feed(h, x) ==
    /\ ~chClosed
    /\ fed < MaxHeaders
    /\ Len(ch) < 2 * batch
    /\ ch' = Append(ch, [id |-> fed + 1, height |-> h, hash |-> x])
    /\ fed' = fed + 1
    /\ UNCHANGED <<batch, chClosed, syncPc, cur, headers, height, tries,
                   reset, hubStore, existErr, subErr, handed, timeoutFired, failed, synced,
                   expired, quiet>>
    /\ UNCHANGED <<pvars, vvars, cvars, ovars>>

\* The upstream listener closes ch.
CloseCh ==
    /\ ~chClosed
    /\ chClosed' = TRUE
    /\ UNCHANGED <<batch, ch, fed, syncPc, cur, headers, height, tries,
                   reset, hubStore, existErr, subErr, handed, timeoutFired, failed, synced,
                   expired, quiet>>
    /\ UNCHANGED <<pvars, vvars, cvars, ovars>>

\* Single mode, lines 424-435 up to the call of SubmitHeadersWithLoop: take
\* the next header, check its existence, then skip it (ok), send a rollback
\* (the check failed) or go on to submit it.
SingleRecv(q) ==
    /\ batch = 1
    /\ syncPc = "recv"
    /\ ch # <<>>
    /\ LET header == Head(ch)
           r == CheckHeaderExistence(header, q, hubStore)
       IN  /\ ch' = Tail(ch)
           /\ cur' = header
           /\ existErr' = r.err
           /\ IF r.ok
              THEN UNCHANGED <<syncPc, reset, handed, tries>>
              ELSE IF r.err = "nil"
              THEN /\ syncPc' = "submit"
                   /\ tries' = 0
                   /\ handed' = Append(handed, <<header.id>>)
                   /\ UNCHANGED reset
              ELSE /\ reset' = Append(reset, RollbackHeight(header.height, 0))
                   /\ UNCHANGED <<syncPc, handed, tries>>
    /\ UNCHANGED <<batch, chClosed, fed, headers, height, hubStore, subErr,
                   timeoutFired, failed, synced, expired, quiet>>
    /\ UNCHANGED <<pvars, vvars, cvars, ovars>>

\* Single mode: range over a closed and drained channel ends (424, 471).
SingleExit ==
    /\ batch = 1
    /\ syncPc = "recv"
    /\ ch = <<>>
    /\ chClosed
    /\ syncPc' = "exited"
    /\ UNCHANGED <<batch, ch, chClosed, fed, cur, headers, height, tries,
                   reset, hubStore, existErr, subErr, handed, timeoutFired, failed, synced,
                   expired, quiet>>
    /\ UNCHANGED <<pvars, vvars, cvars, ovars>>

\* The batch SubmitHeadersWithLoop was called with (431, 460).
Pending == IF batch = 1 THEN <<cur>> ELSE headers

\* One iteration of SubmitHeadersWithLoop (83-98) with the outcome o of its
\* SubmitHeaders call.  A nil or fork error returns to startSync, which sends
\* the rollback height if the error is not nil (433-435, 461-463) and, in
\* batch mode, empties the buffer (464).  Any other error sleeps and retries.
SubmitAttempt(o) ==
    /\ syncPc = "submit"
    /\ LET err == SubmitHeaders(o)
           done == err = "nil" \/ IsForkError(err)
       IN  /\ ~done => tries < MaxTries
           /\ subErr' = err
           /\ failed' = (failed \/ err # "nil")
           /\ hubStore' = HubAfter(hubStore, Pending, o)
           /\ synced' = (~done /\ (synced \/ o.accepted))
           /\ IF ~done
              THEN /\ tries' = tries + 1
                   /\ UNCHANGED <<syncPc, reset, headers>>
              ELSE /\ tries' = 0
                   /\ syncPc' = "recv"
                   /\ reset' = IF err = "nil" THEN reset
                               ELSE IF batch = 1
                               THEN Append(reset, RollbackHeight(cur.height, 0))
                               ELSE Append(reset,
                                        RollbackHeight(height, Len(headers)))
                   /\ headers' = <<>>
    /\ UNCHANGED <<batch, ch, chClosed, fed, cur, height, existErr, handed,
                   timeoutFired, expired, quiet>>
    /\ UNCHANGED <<pvars, vvars, cvars, ovars>>

CommitOnArrival_OffByOne(b) == Len(b) > batch

\* Lines 449, 451 and 455: whether the buffer b is committed.
CommitOnArrival(b) == Len(b) >= batch

CommitOnTimeout(b) == Len(b) > 0

FreshTimer_Kept(e) == e

\* Line 454: time.After(duration) is evaluated each time the select is
\* entered, so every pass of the loop starts a timer that has not expired.
FreshTimer(e) == FALSE

\* Batch mode, case header, ok := <-ch with ok (445-449, 457-460): buffer the
\* header and, when the buffer is full, call SubmitHeadersWithLoop.
BatchRecv ==
    /\ batch > 1
    /\ syncPc = "recv"
    /\ ch # <<>>
    /\ LET header == Head(ch)
           buf == Append(headers, header)
       IN  /\ ch' = Tail(ch)
           /\ height' = header.height
           /\ headers' = buf
           /\ IF CommitOnArrival(buf)
              THEN /\ syncPc' = "submit"
                   /\ tries' = 0
                   /\ handed' = Append(handed, Ids(buf))
              ELSE UNCHANGED <<syncPc, tries, handed>>
    /\ expired' = FreshTimer(expired)
    /\ quiet' = FALSE
    /\ UNCHANGED <<batch, chClosed, fed, cur, reset, hubStore, existErr,
                   subErr, timeoutFired, failed, synced>>
    /\ UNCHANGED <<pvars, vvars, cvars, ovars>>

\* Batch mode: the duration of the time.After of line 454 goes by.  The
\* timer is created when the select is entered and a receive that is ready
\* is taken at once, so the duration goes by only while ch is empty and open.
TimerExpires ==
    /\ batch > 1
    /\ syncPc = "recv"
    /\ ~expired
    /\ ch = <<>>
    /\ ~chClosed
    /\ expired' = TRUE
    /\ quiet' = TRUE
    /\ UNCHANGED <<batch, ch, chClosed, fed, syncPc, cur, headers, height, tries,
                   reset, hubStore, existErr, subErr, handed, timeoutFired, failed, synced>>
    /\ UNCHANGED <<pvars, vvars, cvars, ovars>>

\* Batch mode, case <-time.After(duration) (454-460), taken once the timer
\* has expired.
BatchTimeout ==
    /\ batch > 1
    /\ syncPc = "recv"
    /\ expired
    /\ expired' = FreshTimer(expired)
    /\ timeoutFired' = TRUE
    /\ IF CommitOnTimeout(headers)
       THEN /\ syncPc' = "submit"
            /\ tries' = 0
            /\ handed' = Append(handed, Ids(headers))
       ELSE UNCHANGED <<syncPc, tries, handed>>
    /\ UNCHANGED <<batch, ch, chClosed, fed, cur, headers, height, reset,
                   hubStore, existErr, subErr, failed, synced, quiet>>
    /\ UNCHANGED <<pvars, vvars, cvars, ovars>>

BatchClosed_Drop ==
    /\ batch > 1
    /\ syncPc = "recv"
    /\ ch = <<>>
    /\ chClosed
    /\ syncPc' = "exited"
    /\ expired' = FALSE
    /\ UNCHANGED <<batch, ch, chClosed, fed, cur, headers, height, tries,
                   reset, hubStore, existErr, subErr, handed, timeoutFired,
                   failed, synced, quiet>>
    /\ UNCHANGED <<pvars, vvars, cvars, ovars>>

\* Batch mode, the receive reports the channel closed (450-452): leave the
\* loop; a non-empty buffer goes to the final SubmitHeaders call (467-469).
BatchClosed ==
    /\ batch > 1
    /\ syncPc = "recv"
    /\ ch = <<>>
    /\ chClosed
    /\ IF Len(headers) > 0
       THEN /\ syncPc' = "final"
            /\ handed' = Append(handed, Ids(headers))
       ELSE /\ syncPc' = "exited"
            /\ UNCHANGED handed
    /\ expired' = FALSE
    /\ UNCHANGED <<batch, ch, chClosed, fed, cur, headers, height, tries,
                   reset, hubStore, existErr, subErr, timeoutFired, failed, synced,
                   quiet>>
    /\ UNCHANGED <<pvars, vvars, cvars, ovars>>

\* Line 468: one SubmitHeaders call whose result is dropped.
FinalFlush(o) ==
    /\ syncPc = "final"
    /\ subErr' = SubmitHeaders(o)
    /\ failed' = (failed \/ SubmitHeaders(o) # "nil")
    /\ hubStore' = HubAfter(hubStore, headers, o)
    /\ syncPc' = "exited"
    /\ UNCHANGED synced
    /\ UNCHANGED <<batch, ch, chClosed, fed, cur, headers, height, tries,
                   reset, existErr, handed, timeoutFired, expired, quiet>>
    /\ UNCHANGED <<pvars, vvars, cvars, ovars>>

NextSync ==
    \/ \E h \in Heights, x \in Hashes : Feed(h, x)
    \/ CloseCh
    \/ \E q \in {"ok", "err"} : SingleRecv(q)
    \/ SingleExit
    \/ \E o \in Outcomes : SubmitAttempt(o)
    \/ BatchRecv
    \/ TimerExpires
    \/ BatchTimeout
    \/ BatchClosed
    \/ \E o \in Outcomes : FinalFlush(o)

\* ------------------------------------------------------------ validation
\* Chain ids tried in the claimed Tx and in the nodes' notifications; 0 is
\* the invalid destination chain id of lines 553 and 606.
ChainIds == {1, 2}

HexChars == <<"0", "1", "2", "3", "4", "5", "6", "7",
              "8", "9", "a", "b", "c", "d", "e", "f">>

\* hex.EncodeToString of a byte string: two lower-case digits per byte.
RECURSIVE HexEncode(_)
HexEncode(bs) ==
    IF bs = <<>> THEN <<>>
    ELSE <<HexChars[(Head(bs) \div 16) + 1], HexChars[(Head(bs) % 16) + 1]>>
            \o HexEncode(Tail(bs))

LowerChar(c) ==
    CASE c = "A" -> "a" [] c = "B" -> "b" [] c = "C" -> "c"
      [] c = "D" -> "d" [] c = "E" -> "e" [] c = "F" -> "f"
      [] OTHER -> c

\* util.LowerHex on a string without the 0x prefix: the lower-case string.
LowerHex(str) == [i \in DOMAIN str |-> LowerChar(str[i])]

\* ToContractAddress values a proof may decode to (0xab, 0xcd).
Contracts == {<<171>>, <<205>>}

\* DstProxy values of the claimed Tx.
Proxies == {<<"a", "b">>, <<"A", "B">>, <<"c", "d">>}

\* Notifications of an event: the contract, the number of states, states[0],
\* and the source and destination chain ids of states[1] and states[2].
Notif(c, n, m, s, d) ==
    [contract |-> c, nstates |-> n, method |-> m, src |-> s, dst |-> d]

Notifs ==
    {Notif("other", 6, "makeProof", 1, 2), Notif("ccm", 5, "makeProof", 1, 2),
     Notif("ccm", 6, "other", 1, 2), Notif("ccm", 6, "makeProof", 1, 0)}
    \cup {Notif("ccm", 6, "makeProof", sc, dc) : sc \in ChainIds, dc \in ChainIds}

\* Answers of GetSmartContractEvent: an error, or an event with its Notify.
NotifyLists ==
    {<<>>} \cup {<<n>> : n \in Notifs}
    \cup {<<m, n>> : m \in {Notif("ccm", 6, "other", 1, 2),
                           Notif("ccm", 6, "makeProof", 1, 0)},
                     n \in Notifs}

Events ==
    {[err |-> TRUE, notify |-> <<>>]}
    \cup {[err |-> FALSE, notify |-> ns] : ns \in NotifyLists}

\* Answers of getProof: an error, no value, or a value with its
\* MakeTxParam.ToContractAddress.
Proofs ==
    {[kind |-> "err", addr |-> <<>>], [kind |-> "nil", addr |-> <<>>]}
    \cup {[kind |-> "value", addr |-> c] : c \in Contracts}

\* A nil *msg.Tx.
NilTx == [nil |-> TRUE, srcChainId |-> 0, dstChainId |-> 0]

\* The test of lines 595-609 on one notification.
Qualifies(n) ==
    /\ n.contract = "ccm"
    /\ ~(n.nstates < 6)
    /\ n.method = "makeProof"
    /\ n.dst # 0

\* scanTx (588-627) on the node's answer ev: the record of the first
\* qualifying notification, or an error.
scanTx(ev) ==
    IF ev.err
    THEN [tx |-> NilTx, err |-> "rpc"]
    ELSE IF \E i \in DOMAIN ev.notify : Qualifies(ev.notify[i])
    THEN LET ns == ev.notify
             i == CHOOSE k \in DOMAIN ns :
                     /\ Qualifies(ns[k])
                     /\ \A j \in DOMAIN ns : Qualifies(ns[j]) => k <= j
         IN  [tx |-> [nil |-> FALSE, srcChainId |-> ns[i].src,
                      dstChainId |-> ns[i].dst],
              err |-> "nil"]
    ELSE [tx |-> NilTx, err |-> "noevent"]

\* validate (688-712) for the claimed tx against one node that answers ev to
\* GetSmartContractEvent and pr to getProof: the error it returns, one of
\*   "nil"        success
\*   "rpc", "noevent", "prooferr"   errors passed on from scanTx and getProof
\*   "missing"    msg.ERR_TX_PROOF_MISSING
\*   "violation"  an error wrapping msg.ERR_TX_VOILATION
validate(tx, ev, pr) ==
    LET r == scanTx(ev)
    IN  IF r.err # "nil" THEN r.err
        ELSE IF r.tx.nil THEN "missing"
        ELSE IF tx.srcChainId # r.tx.srcChainId THEN "violation"
        ELSE IF tx.dstChainId # r.tx.dstChainId THEN "violation"
        ELSE IF pr.kind = "err" THEN "prooferr"
        ELSE IF pr.kind = "nil" THEN "missing"
        ELSE IF LowerHex(HexEncode(pr.addr)) # LowerHex(tx.dstProxy)
        THEN "violation"
        ELSE "nil"

\* The record a node's answers derive differs from the claimed tx: in a chain
\* id, or, the chain ids being equal, in the decoded contract address.
Mismatch(tx, ev, pr) ==
    LET r == scanTx(ev)
    IN  /\ r.err = "nil"
        /\ \/ r.tx.srcChainId # tx.srcChainId
           \/ r.tx.dstChainId # tx.dstChainId
           \/ /\ pr.kind = "value"
              /\ LowerHex(HexEncode(pr.addr)) # LowerHex(tx.dstProxy)

\* The node's answers hold no derivable proof: its event has no qualifying
\* makeProof notification, or its proof lookup yields no value.
NoProof(ev, pr) ==
    /\ ~ev.err
    /\ \/ scanTx(ev).err = "noevent"
       \/ pr.kind = "nil"

\* What one validate call saw and returned, as kept in vq.
Seen(tx, ev, pr) ==
    [e |-> validate(tx, ev, pr),
     mismatch |-> Mismatch(tx, ev, pr),
     noproof |-> NoProof(ev, pr)]

InitValidate ==
    /\ vtx \in [srcChainId : ChainIds, dstChainId : ChainIds, dstProxy : Proxies]
    /\ vpc = "start"
    /\ vi = 0
    /\ verr = "nil"
    /\ vresult = "none"
    /\ vq = <<>>

IdleValidate ==
    /\ vtx = [srcChainId |-> 1, dstChainId |-> 1, dstProxy |-> <<"a", "b">>]
    /\ vpc = "start"
    /\ vi = 0
    /\ verr = "nil"
    /\ vresult = "none"
    /\ vq = <<>>

\* Validate, lines 674-677: validate against the primary node l.sdk.Node().
ValidatePrimary(ev, pr) ==
    /\ vpc = "start"
    /\ LET e == validate(vtx, ev, pr)
       IN  /\ verr' = e
           /\ vq' = Append(vq, Seen(vtx, ev, pr))
           /\ IF e = "nil"
              THEN /\ vpc' = "done"
                   /\ vresult' = e
                   /\ UNCHANGED vi
              ELSE /\ vpc' = "loop"
                   /\ vi' = 1
                   /\ UNCHANGED vresult
    /\ UNCHANGED vtx
    /\ UNCHANGED <<pvars, svars, cvars, ovars>>

ValidateNode_ReturnsOwn(ev, pr) ==
    /\ vpc = "loop"
    /\ LET e == validate(vtx, ev, pr)
       IN  /\ vq' = Append(vq, Seen(vtx, ev, pr))
           /\ IF e = "nil" \/ vi = NumNodes
              THEN /\ vpc' = "done"
                   /\ vresult' = e
                   /\ UNCHANGED vi
              ELSE /\ vi' = vi + 1
                   /\ UNCHANGED <<vpc, vresult>>
    /\ UNCHANGED <<vtx, verr>>
    /\ UNCHANGED <<pvars, svars, cvars, ovars>>

\* Validate, lines 679-685: one iteration over l.sdk.AllNodes().  The error
\* e of the node is local; both returns are bare, so they return err.
ValidateNode(ev, pr) ==
    /\ vpc = "loop"
    /\ LET e == validate(vtx, ev, pr)
       IN  /\ vq' = Append(vq, Seen(vtx, ev, pr))
           /\ IF e = "nil" \/ vi = NumNodes
              THEN /\ vpc' = "done"
                   /\ vresult' = verr
                   /\ UNCHANGED vi
              ELSE /\ vi' = vi + 1
                   /\ UNCHANGED <<vpc, vresult>>
    /\ UNCHANGED <<vtx, verr>>
    /\ UNCHANGED <<pvars, svars, cvars, ovars>>

NextValidate ==
    \/ \E ev \in Events, pr \in Proofs : ValidatePrimary(ev, pr)
    \/ \E ev \in Events, pr \in Proofs : ValidateNode(ev, pr)

\* ----------------------------------------------------------- composition
\* uint32 addition.
Add32(a, b) == (a + b) % Uint32Mod

U32 == 0..(Uint32Mod - 1)

\* Methods a decoded MakeTxParam may name, and those config allows.
Methods == {"lock", "evil"}

AllowedMethods == {"lock"}

\* config.CONFIG.AllowMethod.
AllowMethod(m) == m \in AllowedMethods

\* A nil *types.Header.
NilHeader ==
    [nil |-> TRUE, height |-> 0, nbk |-> FALSE, json |-> TRUE, peers |-> <<>>,
     sigs |-> <<>>]

\* What a header holds besides its height: whether NextBookkeeper is set,
\* whether its ConsensusPayload unmarshals (json), the peers' public keys of
\* the payload's NewChainConfig, in payload order, and its SigData.
HeaderKinds ==
    {[nbk |-> FALSE, json |-> TRUE, peers |-> <<>>, sigs |-> g] :
        g \in {<<1>>, <<2, 3>>}}
    \cup {[nbk |-> TRUE, json |-> FALSE, peers |-> <<>>, sigs |-> g] :
            g \in {<<1>>, <<2, 3>>}}
    \cup {[nbk |-> TRUE, json |-> TRUE, peers |-> k, sigs |-> g] :
            k \in {<<1>>, <<2>>}, g \in {<<1>>, <<2, 3>>}}

Header(h, k) ==
    [nil |-> FALSE, height |-> h, nbk |-> k.nbk, json |-> k.json,
     peers |-> k.peers, sigs |-> k.sigs]

\* Answers of the node: to GetBlockHeightByTxHash, to GetHeaderByHeight, to
\* GetMerkleProof and to GetPolyParams (the decoded parameter's method, or
\* "nilparam" for a MerkleValue without MakeTxParam).
HeightAnswers == {[err |-> TRUE, h |-> 0]} \cup {[err |-> FALSE, h |-> n] : n \in U32}

HeaderAnswers ==
    {[err |-> TRUE,
      kind |-> [nbk |-> FALSE, json |-> TRUE, peers |-> <<>>, sigs |-> <<>>]]}
    \cup {[err |-> FALSE, kind |-> k] : k \in HeaderKinds}

ProofAnswers == {[err |-> TRUE, path |-> ""], [err |-> FALSE, path |-> ""],
                 [err |-> FALSE, path |-> "p"]}

ParamAnswers ==
    {[err |-> TRUE, param |-> "unset"], [err |-> FALSE, param |-> "nilparam"]}
    \cup {[err |-> FALSE, param |-> m] : m \in Methods}

\* The answer drawn for a call that is not made: the error answer.
NoAnswer(answers) == CHOOSE a \in answers : a.err

\* Public keys a peer may hold; a key's number is its rank in the order of
\* keypair.SortPublicKeys.
KeyIds == {1, 2, 3}

\* The sorted keys s with k put at its place.
InsertKey(k, s) ==
    LET n == Cardinality({i \in DOMAIN s : s[i] <= k})
    IN  SubSeq(s, 1, n) \o <<k>> \o SubSeq(s, n + 1, Len(s))

SortPublicKeys_Unsorted(bks) == bks

\* keypair.SortPublicKeys (327): the keys in ascending order.
RECURSIVE SortPublicKeys(_)
SortPublicKeys(bks) ==
    IF bks = <<>> THEN <<>>
    ELSE InsertKey(Head(bks), SortPublicKeys(Tail(bks)))

\* Line 342: the trailing 20 bytes of the Keccak hash of a key, here one byte
\* per key, distinct keys having distinct hashes.
KeyAddress(k) == <<200 + k>>

\* ZeroCopySink.WriteUint64: eight bytes, little endian.
WriteUint64(n) == <<n, 0, 0, 0, 0, 0, 0, 0>>

\* ZeroCopySink.WriteVarBytes: the length, then the bytes.
WriteVarBytes(b) == <<Len(b)>> \o b

RECURSIVE WriteKeys(_)
WriteKeys(bks) ==
    IF bks = <<>> THEN <<>>
    ELSE WriteVarBytes(KeyAddress(Head(bks))) \o WriteKeys(Tail(bks))

\* Lines 321-343: sink.Bytes() for the peers of a payload.
KeeperBytes(peers) ==
    LET bks == SortPublicKeys(peers)
    IN  WriteUint64(Len(bks)) \o WriteKeys(bks)

\* CheckEpoch (307-346) on the Tx's recorded keepers and a header.
CheckEpoch(keepers, hdr) ==
    IF Len(keepers) = 0 THEN [epoch |-> FALSE, err |-> TRUE]
    ELSE IF ~hdr.nbk THEN [epoch |-> FALSE, err |-> FALSE]
    ELSE IF ~hdr.json THEN [epoch |-> FALSE, err |-> TRUE]
    ELSE [epoch |-> keepers # KeeperBytes(hdr.peers), err |-> FALSE]

\* Lines 205-216: the anchor height, 0 for none, and whether CheckEpoch
\* failed.
AnchorHeight(tx) ==
    IF tx.polyHeight < tx.dstStart
    THEN [h |-> Add32(tx.dstStart, 1), err |-> FALSE]
    ELSE LET c == CheckEpoch(tx.keepers, tx.polyHeader)
         IN  IF c.err THEN [h |-> 0, err |-> TRUE]
             ELSE IF c.epoch THEN [h |-> Add32(tx.polyHeight, 2), err |-> FALSE]
             ELSE [h |-> 0, err |-> FALSE]

\* signature.ConvertToEthCompatible on one signature: the converted bytes.
ConvertToEthCompatible(sig) == <<"eth", sig>>

\* CollectSigs (164-183), the conversions succeeding: the new DstSigs.
CollectSigs(tx) ==
    LET sigHeader == IF ~tx.anchorHeader.nil /\ tx.anchorProof # ""
                     THEN tx.anchorHeader ELSE tx.polyHeader
    IN  [i \in DOMAIN sigHeader.sigs |-> ConvertToEthCompatible(sigHeader.sigs[i])]

\* Line 235: the test that rejects the composed Tx.
RejectsParam(param) == param = "nilparam" \/ AllowMethod(param)

FreshTxs ==
    [polyHash : {"", "h"}, polyHeight : U32, dstStart : U32,
     keepers : {<<>>, KeeperBytes(<<1>>)},
     polyHeader : {NilHeader}, anchorHeader : {NilHeader},
     anchorProof : {""}, merkle : {"unset"}, dstSigs : {<<>>}]

InitCompose ==
    /\ ctx \in FreshTxs
    /\ cpc = "idle"
    /\ cres = "none"
    /\ cfetch = <<>>

IdleCompose ==
    /\ ctx = [polyHash |-> "", polyHeight |-> 0, dstStart |-> 0,
              keepers |-> <<>>, polyHeader |-> NilHeader,
              anchorHeader |-> NilHeader, anchorProof |-> "",
              merkle |-> "unset", dstSigs |-> <<>>]
    /\ cpc = "idle"
    /\ cres = "none"
    /\ cfetch = <<>>

Fetch(op, a, b) == [op |-> op, a |-> a, b |-> b]

\* ComposeTx, lines 186-203: the checks of the Tx, the height looked up when
\* it is 0, and the header at polyHeight + 1.
ComposeBegin(rh, rhdr) ==
    /\ cpc = "idle"
    /\ (ctx.polyHash = "" \/ ctx.dstStart = 0 \/ ctx.polyHeight # 0)
            => rh = NoAnswer(HeightAnswers)
    /\ (ctx.polyHash = "" \/ ctx.dstStart = 0 \/ (ctx.polyHeight = 0 /\ rh.err))
            => rhdr = NoAnswer(HeaderAnswers)
    /\ IF ctx.polyHash = ""
       THEN /\ cres' = "badhash"
            /\ UNCHANGED <<ctx, cpc>>
            /\ cfetch' = <<>>
       ELSE IF ctx.dstStart = 0
       THEN /\ cres' = "noepoch"
            /\ UNCHANGED <<ctx, cpc>>
            /\ cfetch' = <<>>
       ELSE IF ctx.polyHeight = 0 /\ rh.err
       THEN /\ cres' = "rpc"
            /\ UNCHANGED <<ctx, cpc>>
            /\ cfetch' = <<>>
       ELSE LET ph == IF ctx.polyHeight = 0 THEN rh.h ELSE ctx.polyHeight
                hh == Add32(ph, 1)
            IN  /\ cfetch' = <<Fetch("header", hh, 0)>>
                /\ IF rhdr.err
                   THEN /\ ctx' = [ctx EXCEPT !.polyHeight = ph,
                                              !.polyHeader = NilHeader]
                        /\ cres' = "rpc"
                        /\ UNCHANGED cpc
                   ELSE /\ ctx' = [ctx EXCEPT !.polyHeight = ph,
                                              !.polyHeader = Header(hh, rhdr.kind)]
                        /\ cres' = "none"
                        /\ cpc' = "anchor"
    /\ UNCHANGED <<pvars, svars, vvars, ovars>>

\* ComposeTx, lines 205-228: the anchor height, and for an anchor height
\* above 0 the anchor header and the Merkle proof up to it.
ComposeAnchor(ra, rp) ==
    /\ cpc = "anchor"
    /\ (AnchorHeight(ctx).err \/ AnchorHeight(ctx).h = 0)
            => ra = NoAnswer(HeaderAnswers)
    /\ (AnchorHeight(ctx).err \/ AnchorHeight(ctx).h = 0 \/ ra.err)
            => rp = NoAnswer(ProofAnswers)
    /\ LET a == AnchorHeight(ctx)
           from == Add32(ctx.polyHeight, 1)
       IN  IF a.err
           THEN /\ cres' = "epocherr"
                /\ cpc' = "idle"
                /\ UNCHANGED <<ctx, cfetch>>
           ELSE IF ~(a.h > 0)
           THEN /\ cpc' = "params"
                /\ UNCHANGED <<ctx, cres, cfetch>>
           ELSE IF ra.err
           THEN /\ ctx' = [ctx EXCEPT !.anchorHeader = NilHeader]
                /\ cfetch' = Append(cfetch, Fetch("header", a.h, 0))
                /\ cres' = "rpc"
                /\ cpc' = "idle"
           ELSE IF rp.err
           THEN /\ ctx' = [ctx EXCEPT !.anchorHeader = Header(a.h, ra.kind)]
                /\ cfetch' = cfetch \o <<Fetch("header", a.h, 0),
                                         Fetch("merkle", from, a.h)>>
                /\ cres' = "rpc"
                /\ cpc' = "idle"
           ELSE /\ ctx' = [ctx EXCEPT !.anchorHeader = Header(a.h, ra.kind),
                                      !.anchorProof = rp.path]
                /\ cfetch' = cfetch \o <<Fetch("header", a.h, 0),
                                         Fetch("merkle", from, a.h)>>
                /\ cpc' = "params"
                /\ UNCHANGED cres
    /\ UNCHANGED <<pvars, svars, vvars, ovars>>

\* ComposeTx, lines 230-243: GetPolyParams, the test of the decoded
\* parameter, and CollectSigs (sigErr: a signature does not convert).  Line
\* 238 reads MakeTxParam.Method when tx.Param is set (hasParam, a field
\* ComposeTx never writes), a nil dereference when MakeTxParam is nil.
ComposeFinish(rm, hasParam, sigErr) ==
    /\ cpc = "params"
    /\ (rm.err \/ rm.param # "nilparam") => ~hasParam
    /\ (rm.err \/ RejectsParam(rm.param)) => ~sigErr
    /\ cpc' = "idle"
    /\ IF rm.err
       THEN /\ ctx' = [ctx EXCEPT !.merkle = "unset"]
            /\ cres' = "rpc"
       ELSE IF RejectsParam(rm.param)
       THEN /\ ctx' = [ctx EXCEPT !.merkle = rm.param]
            /\ cres' = IF rm.param = "nilparam" /\ hasParam
                       THEN "panic" ELSE "invalid"
       ELSE IF sigErr
       THEN /\ ctx' = [ctx EXCEPT !.merkle = rm.param]
            /\ cres' = "sigerr"
       ELSE /\ ctx' = [ctx EXCEPT !.merkle = rm.param,
                         !.dstSigs = CollectSigs([ctx EXCEPT !.merkle = rm.param])]
            /\ cres' = "nil"
    /\ UNCHANGED cfetch
    /\ UNCHANGED <<pvars, svars, vvars, ovars>>

NextCompose ==
    \/ \E rh \in HeightAnswers, rhdr \in HeaderAnswers : ComposeBegin(rh, rhdr)
    \/ \E ra \in HeaderAnswers, rp \in ProofAnswers : ComposeAnchor(ra, rp)
    \/ \E rm \in ParamAnswers, hasParam \in BOOLEAN, sigErr \in BOOLEAN :
            ComposeFinish(rm, hasParam, sigErr)

\* ---------------------------------------------------------------- submit
\* The characters hex.DecodeString accepts.
HexDigits ==
    {"0", "1", "2", "3", "4", "5", "6", "7", "8", "9",
     "a", "b", "c", "d", "e", "f", "A", "B", "C", "D", "E", "F"}

\* The value of one hex digit.
FromHexChar(c) ==
    (CHOOSE i \in 1..16 : HexChars[i] = LowerChar(c)) - 1

DecodeString_Lenient(str) ==
    [err |-> FALSE,
     bytes |-> [i \in 1..(Len(str) \div 2) |->
                   IF str[2 * i - 1] \in HexDigits /\ str[2 * i] \in HexDigits
                   THEN 16 * FromHexChar(str[2 * i - 1]) + FromHexChar(str[2 * i])
                   ELSE 0]]

\* hex.DecodeString: an error for a string of odd length or with a character
\* that is no hex digit, else one byte per pair of digits.
DecodeString(str) ==
    IF Len(str) % 2 = 1 \/ \E i \in DOMAIN str : str[i] \notin HexDigits
    THEN [err |-> TRUE, bytes |-> <<>>]
    ELSE [err |-> FALSE,
          bytes |-> [i \in 1..(Len(str) \div 2) |->
                        16 * FromHexChar(str[2 * i - 1]) + FromHexChar(str[2 * i])]]

\* SrcEvent and SrcProof values tried: empty, well-formed in either case, of
\* odd length, and with characters that are no hex digits.
HexStrings ==
    {<<>>, <<"a", "b">>, <<"A", "F">>, <<"a">>, <<"z", "z">>, <<"0", "g">>}

SrcTxs ==
    [srcHeight : {0, 5}, srcProof : HexStrings, srcEvent : HexStrings,
     srcChainId : {0, 2}, srcHash : {"", "h"}, srcProofHeight : {0, 3},
     polyHash : {"", "old"}]

\* Answers of ImportOuterTransfer: an error, or the hash of the transaction.
ImportAnswers ==
    {[err |-> TRUE, hash |-> ""], [err |-> FALSE, hash |-> "h1"],
     [err |-> FALSE, hash |-> "h2"]}

\* Line 117: a required field is zero or empty.
MissingFields(tx) ==
    \/ tx.srcHeight = 0
    \/ tx.srcProof = <<>>
    \/ tx.srcEvent = <<>>
    \/ tx.srcChainId = 0
    \/ tx.srcHash = ""
    \/ tx.srcProofHeight = 0

\* The errors submit returns: kind says which return statement, field which
\* field of the Tx the message names ("" when it names none: line 118 prints
\* the whole Tx after "missing some fields").
SubmitError(kind, field) == [kind |-> kind, field |-> field]

NoError == SubmitError("nil", "")

\* The arguments of one ImportOuterTransfer call (131-139).
ImportCall(tx, value, proof) ==
    [chain |-> tx.srcChainId, value |-> value,
     height |-> tx.srcProofHeight % Uint32Mod, proof |-> proof]

InitSubmit ==
    /\ stx \in SrcTxs
    /\ sres = SubmitError("none", "")
    /\ simp = <<>>

IdleSubmit ==
    /\ stx = [srcHeight |-> 0, srcProof |-> <<>>, srcEvent |-> <<>>,
              srcChainId |-> 0, srcHash |-> "", srcProofHeight |-> 0,
              polyHash |-> ""]
    /\ sres = SubmitError("none", "")
    /\ simp = <<>>

\* submit (115-145), ans being the answer of ImportOuterTransfer when the
\* call is made.
SubmitTx(ans) ==
    /\ sres.kind = "none"
    /\ LET value == DecodeString(stx.srcEvent)
           proof == DecodeString(stx.srcProof)
       IN  /\ (MissingFields(stx) \/ value.err \/ proof.err)
                  => ans = NoAnswer(ImportAnswers)
           /\ IF MissingFields(stx)
              THEN /\ sres' = SubmitError("missing", "")
                   /\ simp' = <<>>
                   /\ UNCHANGED stx
              ELSE IF value.err
              THEN /\ sres' = SubmitError("decode", "srcEvent")
                   /\ simp' = <<>>
                   /\ UNCHANGED stx
              ELSE IF proof.err
              THEN /\ sres' = SubmitError("decode", "srcProof")
                   /\ simp' = <<>>
                   /\ UNCHANGED stx
              ELSE /\ simp' = <<[call |-> ImportCall(stx, value.bytes, proof.bytes),
                              answer |-> ans]>>
                   /\ IF ans.err
                      THEN /\ sres' = SubmitError("import", "")
                           /\ UNCHANGED stx
                      ELSE /\ sres' = NoError
                           /\ stx' = [stx EXCEPT !.polyHash = ans.hash]
    /\ UNCHANGED <<pvars, svars, vvars, cvars, evars, nvars>>

\* The caller hands the Tx to submit again (ProcessTx, 147-153).
SubmitAgain ==
    /\ sres.kind # "none"
    /\ sres' = SubmitError("none", "")
    /\ UNCHANGED <<stx, simp>>
    /\ UNCHANGED <<pvars, svars, vvars, cvars, evars, nvars>>

NextSubmit ==
    \/ \E ans \in ImportAnswers : SubmitTx(ans)
    \/ SubmitAgain

\* ---------------------------------------------------------- CheckEpoch
\* The peer lists of a payload: up to MaxPeers keys in any order, a key
\* possibly more than once.
PeerLists == UNION {[1..n -> KeyIds] : n \in 0..MaxPeers}

\* Recorded keeper encodings tried: none, the encodings of some key sets,
\* and bytes that encode no key set.
KeeperInputs ==
    {<<>>, <<9>>} \cup {KeeperBytes(p) : p \in {<<1>>, <<1, 2>>, <<2, 3>>, <<1, 2, 3>>}}

EpochHeaders ==
    {Header(1, [nbk |-> b, json |-> j, peers |-> p, sigs |-> <<1>>]) :
        b \in BOOLEAN, j \in BOOLEAN, p \in PeerLists}

NoEpochResult == [called |-> FALSE, epoch |-> FALSE, err |-> FALSE]

InitEpoch ==
    /\ ekeepers \in KeeperInputs
    /\ ehdr \in EpochHeaders
    /\ eres = NoEpochResult

IdleEpoch ==
    /\ ekeepers = <<>>
    /\ ehdr = NilHeader
    /\ eres = NoEpochResult

\* One call of CheckEpoch (307-346).
CheckEpochCall ==
    /\ ~eres.called
    /\ LET r == CheckEpoch(ekeepers, ehdr)
       IN  eres' = [called |-> TRUE, epoch |-> r.epoch, err |-> r.err]
    /\ UNCHANGED <<ekeepers, ehdr>>
    /\ UNCHANGED <<pvars, svars, vvars, cvars, xvars, nvars>>

NextEpoch == CheckEpochCall

\* ------------------------------------------------------------------ Scan
\* Source chains whose transaction ids are kept in reversed byte order
\* (base.ONT, base.NEO, base.NEO3).
ReverseChains == {3, 4, 14}

\* Source chain ids tried in a block's notifications: one plain, one reversed.
ScanChains == {2, 3}

ReverseHex_Same(str) == str

\* util.ReverseHex: the hex string of the bytes in reversed order.
RECURSIVE ReverseHex(_)
ReverseHex(str) ==
    IF Len(str) < 2 THEN str
    ELSE ReverseHex(SubSeq(str, 3, Len(str))) \o SubSeq(str, 1, 2)

\* A notification of a block's event: its contract, the number of states,
\* and states[0], [1], [2], [3] and [5].
ScanNotif(c, n, m, sc, dc, id, key) ==
    [contract |-> c, nstates |-> n, method |-> m, src |-> sc, dst |-> dc,
     txId |-> id, key |-> key]

ScanNotifs ==
    {ScanNotif("other", 6, "makeProof", 2, 1, <<"a", "b", "c", "d">>, "k0"),
     ScanNotif("ccm", 5, "makeProof", 2, 1, <<"a", "b", "c", "d">>, ""),
     ScanNotif("ccm", 6, "other", 2, 1, <<"a", "b", "c", "d">>, "k0"),
     ScanNotif("ccm", 6, "makeProof", 2, 0, <<"a", "b", "c", "d">>, "k0")}
    \cup {ScanNotif("ccm", 6, "makeProof", sc, 1, <<"a", "b", "c", "d">>, k) :
            sc \in ScanChains, k \in {"k1", "k2"}}

ScanNotifyLists ==
    {<<>>} \cup {<<a>> : a \in ScanNotifs}
    \cup {<<a, b>> : a \in ScanNotifs, b \in ScanNotifs}

\* An event of the block: its transaction hash and its notifications.
ScanEvent(hash, ns) == [txHash |-> hash, notify |-> ns]

\* Answers of GetSmartContractEventByBlock: an error, or up to two events.
BlockAnswers ==
    {[err |-> TRUE, events |-> <<>>], [err |-> FALSE, events |-> <<>>]}
    \cup {[err |-> FALSE, events |-> <<ScanEvent("e1", a)>>] :
            a \in ScanNotifyLists}
    \cup {[err |-> FALSE,
           events |-> <<ScanEvent("e1", <<a>>), ScanEvent("e2", <<b>>)>>] :
            a \in ScanNotifs, b \in ScanNotifs}

\* Heights handed to Scan: one inside the 32-bit range, one beyond it.
ScanHeights == {3, Uint32Mod + 2}

\* Lines 558-569: the Tx built from a notification of the event with
\* transaction hash hash, in a block scanned at height h.
ScanRecord(n, hash, h) ==
    [dstChainId |-> n.dst, polyKey |-> n.key, polyHeight |-> h % Uint32Mod,
     polyHash |-> hash,
     txId |-> IF n.src \in ReverseChains THEN ReverseHex(n.txId) ELSE n.txId,
     srcChainId |-> n.src]

\* Lines 541-572: the loop over one event's notifications.
RECURSIVE ScanNotify(_, _, _)
ScanNotify(ns, hash, h) ==
    IF ns = <<>> THEN <<>>
    ELSE IF Qualifies(Head(ns))
    THEN <<ScanRecord(Head(ns), hash, h)>> \o ScanNotify(Tail(ns), hash, h)
    ELSE ScanNotify(Tail(ns), hash, h)

\* Lines 540-573: the loop over the events.
RECURSIVE ScanEvents(_, _)
ScanEvents(evs, h) ==
    IF evs = <<>> THEN <<>>
    ELSE ScanNotify(Head(evs).notify, Head(evs).txHash, h)
            \o ScanEvents(Tail(evs), h)

\* Scan (534-576) for the node's answer ans.
Scan(h, ans) ==
    IF ans.err THEN [txs |-> <<>>, err |-> TRUE]
    ELSE [txs |-> ScanEvents(ans.events, h), err |-> FALSE]

NoScanResult == [called |-> FALSE, txs |-> <<>>, err |-> FALSE]

InitScan ==
    /\ nheight \in ScanHeights
    /\ nevents \in BlockAnswers
    /\ nres = NoScanResult

IdleScan ==
    /\ nheight = 0
    /\ nevents = [err |-> TRUE, events |-> <<>>]
    /\ nres = NoScanResult

\* One call of Scan.
ScanCall ==
    /\ ~nres.called
    /\ LET r == Scan(nheight, nevents)
       IN  nres' = [called |-> TRUE, txs |-> r.txs, err |-> r.err]
    /\ UNCHANGED <<nheight, nevents>>
    /\ UNCHANGED <<pvars, svars, vvars, cvars, xvars, evars>>

NextScan == ScanCall

\* ------------------------------------------------------ specifications
\* The components added after the first four, before their first call.
IdleOthers == IdleSubmit /\ IdleEpoch /\ IdleScan

PipelineInit ==
    InitPipeline /\ IdleSync /\ IdleValidate /\ IdleCompose /\ IdleOthers

SyncInit ==
    InitSync /\ IdlePipeline /\ IdleValidate /\ IdleCompose /\ IdleOthers

ValidateInit ==
    InitValidate /\ IdlePipeline /\ IdleSync /\ IdleCompose /\ IdleOthers

ComposeInit ==
    InitCompose /\ IdlePipeline /\ IdleSync /\ IdleValidate /\ IdleOthers

SubmitInit ==
    /\ InitSubmit /\ IdleEpoch /\ IdleScan
    /\ IdlePipeline /\ IdleSync /\ IdleValidate /\ IdleCompose

EpochInit ==
    /\ InitEpoch /\ IdleSubmit /\ IdleScan
    /\ IdlePipeline /\ IdleSync /\ IdleValidate /\ IdleCompose

ScanInit ==
    /\ InitScan /\ IdleSubmit /\ IdleEpoch
    /\ IdlePipeline /\ IdleSync /\ IdleValidate /\ IdleCompose

SpecSubmit == SubmitInit /\ [][NextSubmit]_vars

SpecEpoch == EpochInit /\ [][NextEpoch]_vars

SpecScan == ScanInit /\ [][NextScan]_vars

SpecPipeline == PipelineInit /\ [][NextPipeline]_vars

SpecSync == SyncInit /\ [][NextSync]_vars

\* The header sync engine fed with headers of one height and hash, which is
\* all that its batching, its timer and its exit depend on.
NextSteady ==
    \/ Feed(150, 1)
    \/ CloseCh
    \/ \E q \in {"ok", "err"} : SingleRecv(q)
    \/ SingleExit
    \/ \E o \in Outcomes : SubmitAttempt(o)
    \/ BatchRecv
    \/ TimerExpires
    \/ BatchTimeout
    \/ BatchClosed
    \/ \E o \in Outcomes : FinalFlush(o)

\* The Go runtime fires a timer whose duration is over and runs the sync
\* goroutine when a case of its select is ready; the final SubmitHeaders
\* call returns.  Nothing forces the upstream listener to send or to close,
\* nor SubmitHeadersWithLoop to return.
FairSync ==
    /\ SyncInit /\ [][NextSteady]_vars
    /\ WF_vars(TimerExpires)
    /\ WF_vars(BatchRecv \/ BatchTimeout \/ BatchClosed)
    /\ WF_vars(\E o \in Outcomes : FinalFlush(o))

SpecValidate == ValidateInit /\ [][NextValidate]_vars

SpecCompose == ComposeInit /\ [][NextCompose]_vars

\* The Go scheduler runs every runnable goroutine: weak fairness of the
\* workers' steps.  Cancellation and the bus's producers are not forced.
FairPipeline ==
    /\ SpecPipeline
    /\ WF_vars(\E w \in Workers : RunEnter(w))
    /\ WF_vars(\E w \in Workers : RunSelect(w))

TypePipeline ==
    /\ procs \in 0..MaxProcs
    /\ started \in BOOLEAN
    /\ ctxDone \in BOOLEAN
    /\ wg \in 0..MaxProcs
    /\ wpc \in [Workers -> WorkerPcs]
    /\ stopPc \in {"idle", "waiting", "returned"}
    /\ Len(bus) <= MaxQueue

\* C1: while the context is not cancelled, a worker that is in its run loop
\* with a transaction waiting on the bus eventually reaches the pop (or the
\* context is cancelled first).
C1_WorkerReachesPop ==
    \A w \in Workers :
        (wpc[w] = "select" /\ ~ctxDone /\ bus # <<>>)
            ~> (ctxDone \/ wpc[w] = "pop")

\* C3: Stop has returned only if every worker Start launched has left run.
C3_StopWaitsForWorkers ==
    stopPc = "returned" =>
        \A w \in Workers : w <= procs => wpc[w] = "exited"

\* ----------------------------------------------------- header sync claims
RECURSIVE Flatten(_)
Flatten(ss) == IF ss = <<>> THEN <<>> ELSE Head(ss) \o Flatten(Tail(ss))

\* H - 100 - k as an unsigned 64-bit value.
ExpectedRollback(H, k) ==
    IF H >= RollbackDelta + k
    THEN H - RollbackDelta - k
    ELSE Uint64Mod + H - RollbackDelta - k

\* SubmitHeadersWithLoop returns to startSync in this step.
LoopReturns == syncPc = "submit" /\ syncPc' = "recv"

\* The final SubmitHeaders call of line 468 returns in this step.
FinalReturns == syncPc = "final" /\ syncPc' = "exited"

\* The height and the number of headers of the batch being submitted.
LastHeight == IF batch = 1 THEN cur.height ELSE headers[Len(headers)].height

Buffered == IF batch = 1 THEN 0 ELSE Len(headers)

\* C8 (as amended): a SubmitHeadersWithLoop call that returns an error is
\* followed by exactly one value on reset, H - 100 in single mode and
\* H - 100 - k in batch mode (uint64), one that returns nil by none, and the
\* batch buffer is empty afterwards; the final flush on closure sends nothing.
C8_RollbackPerLoopSubmission ==
    [][ /\ LoopReturns =>
            /\ IF subErr' = "nil"
               THEN reset' = reset
               ELSE reset' = Append(reset, ExpectedRollback(LastHeight, Buffered))
            /\ headers' = <<>>
        /\ FinalReturns => reset' = reset
      ]_vars

C8_Witness ==
    /\ batch > 1
    /\ syncPc = "recv"
    /\ subErr = "fork"
    /\ headers = <<>>
    /\ reset # <<>>
    /\ reset[Len(reset)] = 150 - RollbackDelta - 2

\* C8 (as stated): every header submission that fails, the final flush
\* included, is followed by exactly one value on reset.
C8_EveryFailedSubmissionSignals ==
    [][ (LoopReturns \/ FinalReturns) =>
            IF subErr' = "nil"
            THEN reset' = reset
            ELSE reset' = Append(reset, ExpectedRollback(LastHeight, Buffered))
      ]_vars

\* C9: in batch mode every batch handed to submission holds between 1 and
\* Batch headers, the batches taken in order followed by the buffer are the
\* headers received so far in arrival order, and when the loop has ended
\* with no timeout and no failed submission the n headers went out as
\* n \div Batch full batches followed by one batch of n % Batch if not zero.
C9_BatchStructure ==
    batch > 1 =>
        /\ \A i \in DOMAIN handed : Len(handed[i]) \in 1..batch
        /\ Flatten(handed) \o (IF syncPc = "recv" THEN Ids(headers) ELSE <<>>)
              = [i \in 1..(fed - Len(ch)) |-> i]
        /\ (syncPc = "exited" /\ ~timeoutFired /\ ~failed) =>
              /\ Len(handed) = (fed \div batch)
                                + (IF fed % batch = 0 THEN 0 ELSE 1)
              /\ \A i \in DOMAIN handed :
                    Len(handed[i]) = IF i <= fed \div batch THEN batch
                                     ELSE fed % batch

C9_Witness ==
    /\ batch = 3
    /\ syncPc = "exited"
    /\ ~timeoutFired
    /\ ~failed
    /\ handed = << <<1, 2, 3>>, <<4>> >>

\* C10: in single mode a header whose hash is the one the hub chain reports
\* at its height is consumed with no submission and no rollback signal, also
\* when it is the same header fed again after the hub chain stored it.
C10_ExistingHeaderSkipped ==
    [][ ( /\ batch = 1
          /\ syncPc = "recv"
          /\ ch # <<>>
          /\ ch' = Tail(ch)
          /\ existErr' = "nil"
          /\ hubStore[Head(ch).height] = Head(ch).hash )
        => ( /\ syncPc' = "recv"
             /\ handed' = handed
             /\ reset' = reset
             /\ hubStore' = hubStore )
      ]_vars

\* A header fed again: the hub chain, empty at first, reports the hash of
\* the header just consumed, which was not handed to submission this time.
C10_Witness ==
    /\ batch = 1
    /\ syncPc = "recv"
    /\ existErr = "nil"
    /\ cur.id > 1
    /\ hubStore[cur.height] = cur.hash
    /\ handed # <<>>
    /\ \A i \in DOMAIN handed : handed[i] # <<cur.id>>

\* ------------------------------------------------------- validation claims
\* C4: when the record derived from a queried node mismatches the claimed
\* tx, Validate returns a violation error.
C4_MismatchIsViolation ==
    (vpc = "done" /\ \E i \in DOMAIN vq : vq[i].mismatch)
        => vresult = "violation"

\* C5: when no queried node yields a derivable proof, Validate returns
\* ERR_TX_PROOF_MISSING.
C5_NoProofIsMissing ==
    (vpc = "done" /\ \A i \in DOMAIN vq : vq[i].noproof)
        => vresult = "missing"

\* Validate's result when the primary node's record mismatches, and when any
\* queried node's does: what the code guarantees next to C4.
PrimaryMismatchIsViolation ==
    (vpc = "done" /\ vq[1].mismatch) => vresult = "violation"

MismatchNeverSucceeds ==
    (vpc = "done" /\ \E i \in DOMAIN vq : vq[i].mismatch) => vresult # "nil"

\* ------------------------------------------------------ composition claims
\* The step in which ComposeTx leaves lines 230-243.
FinishReturns == cpc = "params" /\ cpc' = "idle"

\* C6: ComposeTx returns nil only with a decoded parameter whose method is
\* allow-listed; with the parameter missing or the method not allow-listed
\* it returns ERR_INVALID_TX and does not write dstSigs.
C6_AllowListGuardsSuccess ==
    [][ FinishReturns =>
            /\ cres' = "nil" => ctx'.merkle \in AllowedMethods
            /\ (ctx'.merkle = "nilparam" \/ ctx'.merkle \in Methods \ AllowedMethods)
                  => (cres' = "invalid" /\ ctx'.dstSigs = ctx.dstSigs)
      ]_vars

\* The requests ComposeTx makes while it selects the anchor.
AnchorRequests == SubSeq(cfetch', Len(cfetch) + 1, Len(cfetch'))

\* The step in which ComposeTx leaves lines 205-228.
AnchorReturns == cpc = "anchor" /\ cpc' # "anchor"

\* C7: with polyHeight < dstPolyEpochStartHeight the anchor header is
\* requested at dstPolyEpochStartHeight + 1; otherwise, when CheckEpoch
\* reports a rotation, at polyHeight + 2; otherwise nothing is requested.  At
\* most one anchor header is requested, and the Merkle proof is requested
\* from polyHeight + 1 to the anchor height.
C7_AnchorSelection ==
    [][ (AnchorReturns /\ ctx.polyHeight > 0) =>
            LET c == CheckEpoch(ctx.keepers, ctx.polyHeader)
                want == IF ctx.polyHeight < ctx.dstStart THEN ctx.dstStart + 1
                        ELSE IF ~c.err /\ c.epoch THEN ctx.polyHeight + 2
                        ELSE 0
            IN  IF want = 0
                THEN AnchorRequests = <<>>
                ELSE /\ Len(AnchorRequests) \in 1..2
                     /\ AnchorRequests[1] = Fetch("header", want, 0)
                     /\ Len(AnchorRequests) = 2 =>
                            AnchorRequests[2] =
                                Fetch("merkle", ctx.polyHeight + 1, want)
      ]_vars

\* The same selection in uint32 arithmetic, where a sum that wraps to 0
\* selects no anchor: what the code guarantees next to C7.
AnchorSelectionMod32 ==
    [][ AnchorReturns =>
            LET c == CheckEpoch(ctx.keepers, ctx.polyHeader)
                want == IF ctx.polyHeight < ctx.dstStart
                        THEN (ctx.dstStart + 1) % Uint32Mod
                        ELSE IF ~c.err /\ c.epoch
                        THEN (ctx.polyHeight + 2) % Uint32Mod
                        ELSE 0
            IN  IF want = 0
                THEN AnchorRequests = <<>>
                ELSE /\ Len(AnchorRequests) \in 1..2
                     /\ AnchorRequests[1] = Fetch("header", want, 0)
                     /\ Len(AnchorRequests) = 2 =>
                            AnchorRequests[2] =
                                Fetch("merkle", (ctx.polyHeight + 1) % Uint32Mod, want)
      ]_vars

\* ------------------------------------------------------------ submit claims
\* A string hex.DecodeString decodes: an even number of hex digits.
WellFormedHex(str) ==
    /\ Len(str) % 2 = 0
    /\ \A i \in DOMAIN str : str[i] \in HexDigits

\* The names of the required fields of tx that are zero or empty.
MissingNames(tx) ==
    {f \in {"srcHeight", "srcChainId", "srcProofHeight"} : tx[f] = 0}
    \cup {f \in {"srcProof", "srcEvent"} : tx[f] = <<>>}
    \cup {f \in {"srcHash"} : tx[f] = ""}

\* The step in which submit returns.
SubmitReturns == sres.kind = "none" /\ sres'.kind # "none"

\* C11 (as amended): with a required field missing submit returns the generic
\* missing-fields error, which names no field; with all of them present and
\* the event (else the proof) not well-formed hex it returns the decode error
\* naming srcEvent (else srcProof); in these cases no import call is made.
\* Otherwise exactly one import call is made, with the decoded bytes, submit
\* succeeds iff the call is accepted, and polyHash is then the returned hash.
\* polyHash, like the rest of the Tx, is unchanged on every failure.
C11_SubmitContract ==
    [][ SubmitReturns =>
          LET missing == MissingNames(stx) # {}
              evOk == WellFormedHex(stx.srcEvent)
              prOk == WellFormedHex(stx.srcProof)
          IN  /\ sres'.kind # "nil" => stx' = stx
              /\ missing => (sres' = SubmitError("missing", "") /\ simp' = <<>>)
              /\ (~missing /\ ~evOk) =>
                    (sres' = SubmitError("decode", "srcEvent") /\ simp' = <<>>)
              /\ (~missing /\ evOk /\ ~prOk) =>
                    (sres' = SubmitError("decode", "srcProof") /\ simp' = <<>>)
              /\ (~missing /\ evOk /\ prOk) =>
                    /\ Len(simp') = 1
                    /\ simp'[1].call.chain = stx.srcChainId
                    /\ stx.srcEvent = <<"A", "F">> => simp'[1].call.value = <<175>>
                    /\ stx.srcProof = <<"a", "b">> => simp'[1].call.proof = <<171>>
                    /\ (sres' = NoError) <=> ~simp'[1].answer.err
                    /\ simp'[1].answer.err => sres' = SubmitError("import", "")
                    /\ sres' = NoError =>
                          stx' = [stx EXCEPT !.polyHash = simp'[1].answer.hash]
      ]_vars

\* Both hex fields are malformed: the event is the one named, and nothing was
\* imported.
C11_Witness ==
    /\ sres = SubmitError("decode", "srcEvent")
    /\ ~WellFormedHex(stx.srcProof)
    /\ simp = <<>>
    /\ stx.polyHash = "old"

\* C11 (as stated): with a required field missing or a hex field malformed
\* no import call is made, polyHash is unchanged and the error names an
\* offending field, the event before the proof.
C11_ErrorNamesOffendingField ==
    [][ ( /\ SubmitReturns
          /\ \/ MissingNames(stx) # {}
             \/ ~WellFormedHex(stx.srcEvent)
             \/ ~WellFormedHex(stx.srcProof) )
        => ( /\ simp' = <<>>
             /\ stx' = stx
             /\ sres'.field \in
                   MissingNames(stx)
                   \cup {f \in {"srcEvent", "srcProof"} : ~WellFormedHex(stx[f])}
             /\ (MissingNames(stx) = {} /\ ~WellFormedHex(stx.srcEvent))
                   => sres'.field = "srcEvent" )
      ]_vars

\* -------------------------------------------------------- CheckEpoch claims
\* p and q list the same keys the same number of times.
SameKeys(p, q) ==
    /\ Len(p) = Len(q)
    /\ \A k \in KeyIds :
          Cardinality({i \in DOMAIN p : p[i] = k})
              = Cardinality({i \in DOMAIN q : q[i] = k})

\* The length-prefixed encoding of the sorted, address-hashed keys of peers.
ExpectedKeepers(peers) ==
    LET q == CHOOSE r \in PeerLists :
                /\ SameKeys(r, peers)
                /\ \A i, j \in DOMAIN r : i < j => r[i] <= r[j]
        n == Len(q)
    IN  [i \in 1..(8 + 2 * n) |->
            IF i = 1 THEN n
            ELSE IF i <= 8 THEN 0
            ELSE IF (i - 8) % 2 = 1 THEN 1
            ELSE 200 + q[(i - 8) \div 2]]

\* C12: for a Tx with recorded keepers, CheckEpoch reports no rotation for a
\* header whose NextBookkeeper is empty; for a header with NextBookkeeper set
\* and a payload that decodes it reports a rotation iff the encoding of the
\* sorted, hashed peer keys differs from the recorded keepers; and it returns
\* the same for every order of the peers in the payload.
C12_RotationIffEncodingDiffers ==
    (eres.called /\ Len(ekeepers) > 0) =>
        /\ ~ehdr.nbk => (~eres.epoch /\ ~eres.err)
        /\ (ehdr.nbk /\ ehdr.json) =>
              /\ ~eres.err
              /\ eres.epoch <=> (ekeepers # ExpectedKeepers(ehdr.peers))
        /\ \A p \in PeerLists :
              SameKeys(p, ehdr.peers) =>
                  CheckEpoch(ekeepers, [ehdr EXCEPT !.peers = p])
                      = [epoch |-> eres.epoch, err |-> eres.err]

\* The payload lists the recorded keepers in another order: no rotation.
C12_Witness ==
    /\ eres.called
    /\ ~eres.epoch
    /\ ~eres.err
    /\ ehdr.nbk
    /\ ehdr.json
    /\ ehdr.peers = <<3, 2>>
    /\ ekeepers = <<2, 0, 0, 0, 0, 0, 0, 0, 1, 202, 1, 203>>

\* --------------------------------------------------------------- Scan claims
\* The notification is a makeProof record of the cross-chain manager.
IsMakeProof(n) ==
    /\ n.contract = "ccm"
    /\ n.method = "makeProof"
    /\ n.nstates >= 6
    /\ n.dst # 0

\* The bytes of a hex string in reversed order.
Reversed(t) ==
    [i \in DOMAIN t |-> t[Len(t) - 2 * ((i - 1) \div 2) - 1 + ((i - 1) % 2)]]

\* The records expected of one event: one per makeProof record, in order;
\* rev says whether ids of the reversed-order chains are reversed.
ExpectedOf(ev, rev) ==
    LET q == SelectSeq(ev.notify, IsMakeProof)
    IN  [i \in DOMAIN q |->
            [srcChainId |-> q[i].src, dstChainId |-> q[i].dst,
             txId |-> IF rev /\ q[i].src \in {3, 4, 14}
                      THEN Reversed(q[i].txId) ELSE q[i].txId,
             polyKey |-> q[i].key,
             polyHeight |-> nheight % Uint32Mod,
             polyHash |-> ev.txHash]]

ExpectedScan(rev) ==
    Flatten([e \in DOMAIN nevents.events |-> ExpectedOf(nevents.events[e], rev)])

\* C13 (as amended): Scan returns, in event and notification order, exactly
\* one Tx per makeProof record of the cross-chain manager with at least 6
\* arguments and a non-zero destination chain id, with srcChainId, dstChainId
\* and polyKey from arguments 2, 3 and 6, polyHeight the height of the block
\* queried, and txId argument 4, in reversed byte order when the source chain
\* is ONT, NEO or NEO3; every other notification is skipped.
C13_ScanRecords ==
    (nres.called /\ ~nevents.err) =>
        (~nres.err /\ nres.txs = ExpectedScan(TRUE))

\* A record with a zero destination chain id is skipped, and the record of
\* the next event, from a reversed-order chain, is returned.
C13_Witness ==
    /\ nres.called
    /\ Len(nevents.events) = 2
    /\ nevents.events[1].notify[1].dst = 0
    /\ Len(nres.txs) = 1
    /\ nres.txs[1].polyHash = "e2"
    /\ nres.txs[1].srcChainId = 3
    /\ nres.txs[1].txId = <<"c", "d", "a", "b">>

\* C13 (as stated): the same with txId argument 4 for every source chain.
C13_TxIdIsArgument4 ==
    (nres.called /\ ~nevents.err) =>
        (~nres.err /\ nres.txs = ExpectedScan(FALSE))

\* ------------------------------------------- header sync claims, continued
\* One pass of SubmitHeadersWithLoop's loop: it returns, or counts a retry.
AttemptStep == syncPc = "submit" /\ (syncPc' # "submit" \/ tries' # tries)

\* Single mode: the loop takes the next header from the channel.
SingleTakes == batch = 1 /\ syncPc = "recv" /\ ch # <<>> /\ ch' = Tail(ch)

\* C14 (as amended): in single mode a header is handed to submission when
\* the existence query succeeds and the hub chain holds another hash or none
\* at its height; a rollback signal is sent after a submission rejected with
\* a fork-indicating error, and also, without any submission of the header,
\* after a failed existence query; nothing else sends one.
C14_SingleModeRollbacks ==
    [][ /\ SingleTakes =>
              LET h == Head(ch)
              IN  /\ (existErr' = "nil" /\ hubStore[h.height] # h.hash) =>
                        /\ handed' = Append(handed, <<h.id>>)
                        /\ syncPc' = "submit"
                        /\ reset' = reset
                  /\ existErr' # "nil" =>
                        /\ handed' = handed
                        /\ syncPc' = "recv"
                        /\ reset' = Append(reset, ExpectedRollback(h.height, 0))
        /\ (batch = 1 /\ AttemptStep) =>
              IF subErr' = "fork"
              THEN reset' = Append(reset, ExpectedRollback(cur.height, 0))
              ELSE reset' = reset
        /\ (batch = 1 /\ reset' # reset) =>
              \/ AttemptStep /\ subErr' = "fork"
              \/ SingleTakes /\ existErr' # "nil"
      ]_vars

\* A failed existence query: a rollback signal with nothing handed to
\* submission.
C14_Witness ==
    /\ batch = 1
    /\ syncPc = "recv"
    /\ existErr = "query"
    /\ cur.height = 150
    /\ reset = <<150 - RollbackDelta>>
    /\ handed = <<>>

\* C14 (as stated): in single mode every header the hub chain does not
\* report as present is handed to submission, and a rollback signal is sent
\* only when a submission was rejected with a fork-indicating error.
C14_RollbackOnlyAfterForkRejection ==
    [][ /\ ( /\ SingleTakes
             /\ ~(existErr' = "nil" /\ hubStore[Head(ch).height] = Head(ch).hash) )
              => handed' = Append(handed, <<Head(ch).id>>)
        /\ (batch = 1 /\ reset' # reset) => (AttemptStep /\ subErr' = "fork")
      ]_vars

\* C15: a pass of SubmitHeadersWithLoop whose SubmitHeaders call returns nil
\* or a fork-indicating error returns that result at once; after any other
\* error the loop goes on with the same headers; so the loop returns only nil
\* or a fork-indicating error.
C15_LoopReturnsNilOrFork ==
    [][ AttemptStep =>
            IF subErr' \in {"nil", "fork"}
            THEN syncPc' = "recv" /\ tries' = 0
            ELSE /\ syncPc' = "submit"
                 /\ tries' = tries + 1
                 /\ Pending' = Pending
                 /\ handed' = handed
                 /\ reset' = reset
      ]_vars

\* The loop is retrying a batch after an error that is no fork.
C15_Witness ==
    /\ syncPc = "submit"
    /\ tries >= 1
    /\ subErr = "other"
    /\ Len(handed) = 1

\* C20: a value sent on the reset channel is at most the height of the
\* header whose submission failed.
C20_RollbackNotAboveHeight ==
    [][ reset' # reset =>
            reset'[Len(reset')] <=
                (IF syncPc = "submit" THEN LastHeight ELSE Head(ch).height)
      ]_vars

\* The loop observes that the channel is closed.
SeesClosure == syncPc = "recv" /\ syncPc' \in {"final", "exited"}

\* C16: when the batch loop sees the channel closed, k > 0 buffered headers
\* go to one SubmitHeaders call, which is not retried and sends no rollback
\* signal whatever it returns, and k = 0 headers to none; in both modes the
\* loop is then over: it takes no header and submits nothing any more, and
\* the final call once made, it exits.
C16_ClosureFlush ==
    /\ [][ (batch > 1 /\ SeesClosure) =>
              /\ ch = <<>> /\ chClosed
              /\ reset' = reset
              /\ IF Len(headers) > 0
                 THEN syncPc' = "final" /\ handed' = Append(handed, Ids(headers))
                 ELSE syncPc' = "exited" /\ handed' = handed
         ]_vars
    /\ [][ (batch = 1 /\ SeesClosure) =>
              /\ ch = <<>> /\ chClosed
              /\ syncPc' = "exited" /\ handed' = handed /\ reset' = reset
         ]_vars
    /\ [][ syncPc = "final" =>
              /\ syncPc' \in {"final", "exited"}
              /\ handed' = handed /\ reset' = reset /\ ch' = ch
         ]_vars
    /\ [][ syncPc = "exited" =>
              /\ syncPc' = "exited"
              /\ handed' = handed /\ reset' = reset /\ ch' = ch
              /\ hubStore' = hubStore
         ]_vars
    /\ (syncPc = "final") ~> (syncPc = "exited")

\* The final call failed with a fork-indicating error and no rollback signal
\* was sent.
C16_Witness ==
    /\ batch = 3
    /\ syncPc = "exited"
    /\ subErr = "fork"
    /\ handed = << <<1, 2>> >>
    /\ reset = <<>>

\* A flush that no receive caused: the loop hands the buffer to submission
\* without taking a header.
TimeoutFlush ==
    batch > 1 /\ syncPc = "recv" /\ syncPc' = "submit" /\ ch' = ch

\* C17: in batch mode n buffered headers, 0 < n < Batch, are flushed unless
\* another header is received first; with an empty buffer nothing but a
\* receive makes the loop submit; and a flush by timeout happens only when a
\* full duration went by since the last header was received.
C17_TimeoutFlush ==
    /\ \A n \in 1..(MaxBatch - 1) :
          (batch > 1 /\ n < batch /\ syncPc = "recv" /\ Len(headers) = n)
              ~> (syncPc \in {"submit", "final"} \/ Len(headers) # n)
    /\ [][ (batch > 1 /\ syncPc = "recv" /\ headers = <<>> /\ ch' = ch) =>
              (syncPc' \in {"recv", "exited"} /\ handed' = handed)
         ]_vars
    /\ [][ TimeoutFlush =>
              /\ quiet
              /\ Len(headers) \in 1..(batch - 1)
              /\ handed' = Append(handed, Ids(headers))
         ]_vars

\* A timeout flushed a buffer of one header while the channel stayed open.
C17_Witness ==
    /\ batch = 3
    /\ syncPc = "submit"
    /\ handed = << <<1>> >>
    /\ quiet
    /\ ~chClosed

\* ------------------------------------------- composition claims, continued
\* The converted signatures of a header, in the header's order.
ConvertedSigs(hdr) == [i \in DOMAIN hdr.sigs |-> <<"eth", hdr.sigs[i]>>]

\* This composition selected an anchor: it requested more than the primary
\* header.
AnchorSelected == Len(cfetch) > 1

\* C18: when ComposeTx returns nil, dstSigs holds the converted signatures of
\* the anchor header if this composition selected an anchor, and of the
\* primary header otherwise.
C18_SigsOfSelectedHeader ==
    [][ (FinishReturns /\ cres' = "nil") =>
            ctx'.dstSigs = IF AnchorSelected
                           THEN ConvertedSigs(ctx.anchorHeader)
                           ELSE ConvertedSigs(ctx.polyHeader)
      ]_vars

\* -------------------------------------------- validation claims, continued
\* C19: the primary node is validated against first and the nodes of the
\* node set only after it failed; no node is queried after one validated;
\* Validate returns only after a node validated or all of them failed; and
\* when all failed it returns the primary node's error.
C19_PrimaryFirstThenOthers ==
    /\ vq = <<>> <=> vpc = "start"
    /\ Len(vq) > 1 => vq[1].e # "nil"
    /\ \A i \in 1..(Len(vq) - 1) : vq[i].e # "nil"
    /\ Len(vq) <= NumNodes + 1
    /\ vpc = "done" =>
          /\ vq[Len(vq)].e = "nil" \/ Len(vq) = NumNodes + 1
          /\ (\A i \in DOMAIN vq : vq[i].e # "nil") => vresult = vq[1].e
    /\ vpc = "loop" => (vq[Len(vq)].e # "nil" /\ Len(vq) = vi)

\* Every node failed, the last one with a violation: Validate returned the
\* primary node's error.
C19_Witness ==
    /\ vpc = "done"
    /\ Len(vq) = NumNodes + 1
    /\ \A i \in DOMAIN vq : vq[i].e # "nil"
    /\ vq[1].e = "rpc"
    /\ vq[Len(vq)].e = "violation"
    /\ vresult = "rpc"

\* C21: within one call of SubmitHeadersWithLoop no pass of the loop sends
\* the batch once a SyncBlockHeader call for it has been accepted.
C21_NoResendAfterAccept ==
    [][ AttemptStep => ~synced ]_vars

====
